---- MODULE Spec2Model ----
(***************************************************************************)
(* Model of sysid's AnalyzerPlot (view/AnalyzerPlot.cpp): the producer     *)
(* passes SetData / SetRawData, the segmented simulator                    *)
(* PopulateTimeDomainSim, the module-level running sums behind RMSE / R2,  *)
(* and the rendering thread's DisplayVoltageDomainPlots /                  *)
(* DisplayTimeDomainPlots, which share m_mutex with the producer.          *)
(*                                                                         *)
(* Numbers are integer-valued doubles, so +, -, * are exact.  A loop index *)
(* keeps its C++ value (0-based); data[i] of the code is data[i + 1] here. *)
(* Axis-fit bookkeeping (m_fitNextPlot, FitPlots) and the unit labels are  *)
(* rendering details outside the modelled state.                           *)
(***************************************************************************)
EXTENDS Integers, Sequences, FiniteSets, TLC

\* AnalyzerPlot::kMaxSize, the visualization budget.  It is declared in
\* AnalyzerPlot.h; the model uses a small stand-in value.
kMaxSize == 8

\* Longest run of the data-rich single pass specification.
MaxLen == 3
\* Longest run of the timestep-delta specification: the shortest length at
\* which a strided loop visits a sample that is neither first nor last.
MaxDtLen == 4
\* Longest run of the concurrent specification.
MaxConcLen == 2
\* Number of producer passes of the concurrent specification.
MaxPasses == 2

\* analysis::kElevator, analysis::kArm and every other AnalysisType.
Types == {"generic", "elevator", "arm"}

\* Values an out-of-range read of ffGains may produce.
GarbageValues == {0, 9}

VARIABLES
  pc,            \* the producer's position
  op,            \* the producer's entry point: "SetData" or "SetRawData"
  i,             \* the loop index of the producer's current loop
  mutex,         \* owner of m_mutex: "none", "producer", "consumer"
  abort,         \* the std::atomic<bool>& abort of the caller
  passes,        \* producer calls made so far
  rawData, filteredData, ffGains, startTimes, type,   \* arguments of the call
  garbage,       \* what lies behind the end of ffGains
  gainsRead,     \* indices of ffGains read so far in this call
  sim,           \* locals of PopulateTimeDomainSim: pts, tmp, startTime, model, t
  m_filteredData, m_rawData, m_dtMeanLine,
  m_quasistaticSim, m_dynamicSim, m_KvFit, m_KaFit, m_RMSE, m_RSquared,
  simSquaredErrorSum, squaredVariationSum, timeSeriesPoints,
  cpc,           \* the consumer's position: "idle", "voltage", "time"
  cret,          \* what the consumer's last Display call returned
  committed,     \* the output as the last pass that ran to its end left it
  sinceAbort     \* samples the pass has processed with the flag set

args == <<rawData, filteredData, ffGains, startTimes, type, garbage>>
output == <<m_filteredData, m_rawData, m_dtMeanLine, m_quasistaticSim,
            m_dynamicSim, m_KvFit, m_KaFit, m_RMSE, m_RSquared>>
sums == <<simSquaredErrorSum, squaredVariationSum, timeSeriesPoints>>
consumer == <<cpc, cret>>
history == <<committed, sinceAbort>>
vars == <<pc, op, i, mutex, abort, passes, args, gainsRead, sim, output,
          sums, consumer, history>>

----------------------------------------------------------------------------
(* Input data.                                                             *)

\* Velocity profiles of a run: "zero", "ramp" (0, 1, 2, ...), "neg" (-1, -2, ...).
VelocityOf(profile, k) ==
  CASE profile = "zero" -> 0
    [] profile = "ramp" -> k - 1
    [] profile = "neg" -> 0 - k

\* A run of n PreparedData records with timestamps t0, t0 + 1, ...  dt is the
\* time to the next record; it is 0 on the last record and, with seamZero, on
\* a record whose successor starts a new test (its timestamp is in st).
MkRun(n, t0, profile, st, seamZero) ==
  [k \in 1..n |->
    [timestamp |-> t0 + k - 1,
     voltage |-> 2 * (t0 + k),
     position |-> 10 + k,
     velocity |-> VelocityOf(profile, k),
     nextVelocity |-> IF k < n THEN VelocityOf(profile, k + 1) ELSE 0,
     dt |-> IF k = n \/ (seamZero /\ (t0 + k) \in st) THEN 0 ELSE 1,
     acceleration |-> k,
     cos |-> 0 - 1]]

\* struct Storage: the slow and the fast run.
MkStorage(n, m, profile, st, seamZero) ==
  [slow |-> MkRun(n, 0, profile, st, seamZero),
   fast |-> MkRun(m, 1, "neg", st, seamZero)]

EmptyStorage == [slow |-> <<>>, fast |-> <<>>]

\* Up to four start timestamps (std::array<units::second_t, 4>).
StartTimeSets(maxT) == {st \in SUBSET (0..maxT) : st # {} /\ Cardinality(st) <= 4}

\* Coefficient vectors: Ks, Kv, Ka and, where given, Kg / Kcos.
GainVectors == {<<1, 2, 3>>, <<1, 2, 3, 4>>}

----------------------------------------------------------------------------
(* Pure helpers.                                                           *)

Abs(x) == IF x < 0 THEN 0 - x ELSE x

\* std::ceil(a * 1.0 / b) for a >= 0, b > 0.
Ceil(a, b) == (a + b - 1) \div b

\* Stride with the scale factor dividing instead of multiplying.
StrideDiv(size) == Ceil(size, kMaxSize * 4)
\* std::ceil(size * 1.0 / kMaxSize * 4)
Stride(size) == Ceil(size * 4, kMaxSize)

\* std::copysign(x, y); the integer 0 stands for +0.0.
copysign(x, y) == IF y < 0 THEN 0 - Abs(x) ELSE Abs(x)

\* IsStartTime finding no timestamp: the boundary branch is never taken.
NeverStartTime(st, ts) == FALSE
\* std::find(startTimes.begin(), startTimes.end(), ts) != startTimes.end()
IsStartTime(st, ts) == ts \in st

MinOf(S) == CHOOSE x \in S : \A y \in S : x <= y
MaxOf(S) == CHOOSE x \in S : \A y \in S : y <= x

Point(x, y) == <<x, y>>

\* ffGains[k]: the element, or whatever lies behind the vector's end.
Gain(k) == IF k < Len(ffGains) THEN ffGains[k + 1] ELSE garbage

\* Coefficients a mechanism kind needs.
RequiredGains(ty) == IF ty = "generic" THEN 3 ELSE 4

----------------------------------------------------------------------------
(* The mechanism models (SimpleMotorSim, ElevatorSim, ArmSim).  A model is *)
(* kept as the term that determines its state: the coefficients, the state *)
(* it was last reset to and the steps taken since.                         *)

NewModel(ty, Ks, Kv, Ka, Kg) ==
  [kind |-> ty, Ks |-> Ks, Kv |-> Kv, Ka |-> Ka, Kg |-> Kg,
   position |-> 0, velocity |-> 0, steps |-> <<>>]

ModelReset(m, position, velocity) ==
  [m EXCEPT !.position = position, !.velocity = velocity, !.steps = <<>>]

ModelUpdate(m, voltage, dt) ==
  [m EXCEPT !.steps = Append(@, [voltage |-> voltage, dt |-> dt])]

ModelGetVelocity(m) == [predicted |-> m]

\* A measured velocity plotted on the axis of the predicted ones.
Measured(v) == [measured |-> v]

----------------------------------------------------------------------------
(* PopulateTimeDomainSim.  s holds the locals pts, tmp, startTime, model,  *)
(* t and the three running sums the function adds to.                      *)

SimInit(data, model, sqErr, sqVar, n) ==
  [pts |-> <<>>,
   tmp |-> <<Point(data[1].timestamp, Measured(data[1].velocity))>>,
   startTime |-> data[1].timestamp,
   model |-> ModelReset(model, data[1].position, data[1].velocity),
   t |-> 0,
   simSquaredErrorSum |-> sqErr,
   squaredVariationSum |-> sqVar,
   timeSeriesPoints |-> n]

\* SimStep closing a sequence only when it holds a point.
SimStepDropEmpty(s, data, st, k) ==
  LET now == data[k + 1]
      pre == data[k]
      t2 == s.t + (now.timestamp - pre.timestamp)
  IN IF IsStartTime(st, now.timestamp)
     THEN [s EXCEPT !.t = t2,
                    !.pts = IF s.tmp = <<>> THEN @ ELSE Append(@, s.tmp),
                    !.tmp = <<>>,
                    !.model = ModelReset(@, now.position, now.velocity)]
     ELSE LET m == ModelUpdate(s.model, pre.voltage, pre.dt)
          IN [s EXCEPT !.t = t2,
                       !.model = m,
                       !.tmp = Append(@, Point(s.startTime + t2, ModelGetVelocity(m))),
                       !.simSquaredErrorSum =
                          Append(@, [measured |-> now.velocity,
                                     predicted |-> ModelGetVelocity(m)]),
                       !.squaredVariationSum = @ + now.velocity * now.velocity,
                       !.timeSeriesPoints = @ + 1]

\* SimStep stepping with the current sample's voltage and dt.
SimStepSameSample(s, data, st, k) ==
  LET now == data[k + 1]
      pre == data[k]
      t2 == s.t + (now.timestamp - pre.timestamp)
  IN IF IsStartTime(st, now.timestamp)
     THEN [s EXCEPT !.t = t2,
                    !.pts = Append(@, s.tmp),
                    !.tmp = <<>>,
                    !.model = ModelReset(@, now.position, now.velocity)]
     ELSE LET m == ModelUpdate(s.model, now.voltage, now.dt)
          IN [s EXCEPT !.t = t2,
                       !.model = m,
                       !.tmp = Append(@, Point(s.startTime + t2, ModelGetVelocity(m))),
                       !.simSquaredErrorSum =
                          Append(@, [measured |-> now.velocity,
                                     predicted |-> ModelGetVelocity(m)]),
                       !.squaredVariationSum = @ + now.velocity * now.velocity,
                       !.timeSeriesPoints = @ + 1]

\* One iteration of the loop, for the C++ index k >= 1.  The squared error
\* sum is kept as the sequence of its terms (measured, predicted).
SimStep(s, data, st, k) ==
  LET now == data[k + 1]
      pre == data[k]
      t2 == s.t + (now.timestamp - pre.timestamp)
  IN IF IsStartTime(st, now.timestamp)
     THEN [s EXCEPT !.t = t2,
                    !.pts = Append(@, s.tmp),
                    !.tmp = <<>>,
                    !.model = ModelReset(@, now.position, now.velocity)]
     ELSE LET m == ModelUpdate(s.model, pre.voltage, pre.dt)
          IN [s EXCEPT !.t = t2,
                       !.model = m,
                       !.tmp = Append(@, Point(s.startTime + t2, ModelGetVelocity(m))),
                       !.simSquaredErrorSum =
                          Append(@, [measured |-> now.velocity,
                                     predicted |-> ModelGetVelocity(m)]),
                       !.squaredVariationSum = @ + now.velocity * now.velocity,
                       !.timeSeriesPoints = @ + 1]

\* pts.emplace_back(std::move(tmp)); return pts;
SimResult(s) == Append(s.pts, s.tmp)

\* The locals of a call that is not running.
NoSim == [pts |-> <<>>, tmp |-> <<>>, startTime |-> 0,
          model |-> NewModel("generic", 0, 0, 0, 0), t |-> 0]

\* The locals of the running call together with the running sums.
SimState ==
  [pts |-> sim.pts, tmp |-> sim.tmp, startTime |-> sim.startTime,
   model |-> sim.model, t |-> sim.t,
   simSquaredErrorSum |-> simSquaredErrorSum,
   squaredVariationSum |-> squaredVariationSum,
   timeSeriesPoints |-> timeSeriesPoints]

SimLocals(s) ==
  [pts |-> s.pts, tmp |-> s.tmp, startTime |-> s.startTime,
   model |-> s.model, t |-> s.t]

----------------------------------------------------------------------------
(* Voltage decomposition and the values SetData computes before its loops. *)

HasGravityTerm(ty) == ty = "elevator" \/ ty = "arm"

\* Vportion -= Kg (elevator), Vportion -= Kcos * cos (arm).
GravityTerm(s, ty) ==
  IF ty = "elevator" THEN Gain(3)
  ELSE IF ty = "arm" THEN Gain(3) * s.cos
  ELSE 0

VelocityPortion(s, ty) ==
  s.voltage - copysign(Gain(0), s.velocity) - Gain(2) * s.acceleration
    - GravityTerm(s, ty)

AccelerationPortion(s, ty) ==
  s.voltage - copysign(Gain(0), s.velocity) - Gain(1) * s.velocity
    - GravityTerm(s, ty)

\* Indices of ffGains one iteration of a decomposition loop reads.
GainsOfIteration(ty) == {0, 1, 2} \cup (IF HasGravityTerm(ty) THEN {3} ELSE {})

slowStep == Stride(Len(filteredData.slow))
fastStep == Stride(Len(filteredData.fast))
rawSlowStep == Stride(Len(rawData.slow))
rawFastStep == Stride(Len(rawData.fast))

slowMinElement == MinOf({filteredData.slow[k].velocity : k \in DOMAIN filteredData.slow})
slowMaxElement == MaxOf({filteredData.slow[k].velocity : k \in DOMAIN filteredData.slow})
fastMinElement == MinOf({filteredData.fast[k].acceleration : k \in DOMAIN filteredData.fast})
fastMaxElement == MaxOf({filteredData.fast[k].acceleration : k \in DOMAIN filteredData.fast})

RECURSIVE SumDt(_, _)
SumDt(run, k) == IF k = 0 THEN 0 ELSE run[k].dt + SumDt(run, k - 1)

\* GetMeanTimeDelta (FilteringUtils): the mean of the positive dt of both
\* runs, kept as the pair (sum, count).
GetMeanTimeDelta(data) ==
  [sum |-> SumDt(data.slow, Len(data.slow)) + SumDt(data.fast, Len(data.fast)),
   n |-> Cardinality({k \in DOMAIN data.slow : data.slow[k].dt > 0})
         + Cardinality({k \in DOMAIN data.fast : data.fast[k].dt > 0})]

\* units::millisecond_t{dt}.value()
Millis(dt) == 1000 * dt

Min2(a, b) == IF a <= b THEN a ELSE b
Max2(a, b) == IF a >= b THEN a ELSE b

\* The model object SetData constructs for a simulation.
SimModel(ty) ==
  NewModel(ty, Gain(0), Gain(1), Gain(2), IF HasGravityTerm(ty) THEN Gain(3) ELSE 0)

----------------------------------------------------------------------------
(* Output state.                                                           *)

\* The series of m_filteredData are numbered as in kChartTitles.
NoFilteredData == [k \in 0..6 |-> <<>>]
NoRawData == [k \in 2..5 |-> <<>>]
NoFit == <<Point(0, 0), Point(0, 0)>>
\* m_RMSE and m_RSquared before any pass has set them.
NotComputed == [unset |-> TRUE]

\* What the consumer plots and the metrics beside it.
Published ==
  [filtered |-> m_filteredData, raw |-> m_rawData, dtMeanLine |-> m_dtMeanLine,
   quasistaticSim |-> m_quasistaticSim, dynamicSim |-> m_dynamicSim,
   KvFit |-> m_KvFit, KaFit |-> m_KaFit, RMSE |-> m_RMSE, RSquared |-> m_RSquared]

\* ResetData leaving the running sums as they are.
ResetDataKeepSums ==
  /\ m_filteredData' = NoFilteredData
  /\ m_rawData' = NoRawData
  /\ m_dtMeanLine' = <<>>
  /\ m_quasistaticSim' = <<>>
  /\ m_dynamicSim' = <<>>
  /\ UNCHANGED sums
  /\ m_KvFit' = NoFit
  /\ m_KaFit' = NoFit

ResetData ==
  /\ m_filteredData' = NoFilteredData
  /\ m_rawData' = NoRawData
  /\ m_dtMeanLine' = <<>>
  /\ m_quasistaticSim' = <<>>
  /\ m_dynamicSim' = <<>>
  /\ simSquaredErrorSum' = <<>>
  /\ squaredVariationSum' = 0
  /\ timeSeriesPoints' = 0
  /\ m_KvFit' = NoFit
  /\ m_KaFit' = NoFit

----------------------------------------------------------------------------
(* Calls.                                                                  *)

\* Arguments of a SetData call: runs of the given lengths.  The raw runs have
\* the lengths (n, m), the filtered runs (m, n).
ArgSet(lengths, profiles, stSets, seams, calls) ==
  {a \in {[rawData |-> MkStorage(nm[1], nm[2], p, st, z),
           filteredData |-> MkStorage(nm[2], nm[1], p, st, z),
           ffGains |-> c[1], startTimes |-> st, type |-> c[2], garbage |-> x]
            : nm \in lengths, p \in profiles, st \in stSets, z \in seams,
              c \in calls, x \in GarbageValues}
     : a.garbage = 0 \/ Len(a.ffGains) < RequiredGains(a.type)}

LengthPairs(maxLen) == {<<n, maxLen + 1 - n>> : n \in 1..maxLen}

ConcArgs ==
  ArgSet(LengthPairs(MaxConcLen), {"ramp"}, {{0}}, {TRUE},
         {<<<<1, 2, 3>>, "generic">>, <<<<1, 2, 3, 4>>, "arm">>})

PassArgs ==
  ArgSet(LengthPairs(MaxLen), {"zero", "ramp"}, StartTimeSets(MaxLen), BOOLEAN,
         GainVectors \X Types)

StrideLengths == {1, kMaxSize, kMaxSize + 1, 10 * kMaxSize}

StrideArgs ==
  ArgSet(StrideLengths \X StrideLengths, {"ramp"}, {{0}}, {TRUE},
         {<<<<1, 2, 3>>, "generic">>})

\* Calls for the timestep-delta series: every pair of run lengths.
DtArgs ==
  ArgSet((1..MaxDtLen) \X (1..MaxDtLen), {"ramp"}, StartTimeSets(MaxDtLen),
         BOOLEAN, {<<<<1, 2, 3>>, "generic">>})

Bind(a) ==
  /\ rawData' = a.rawData
  /\ filteredData' = a.filteredData
  /\ ffGains' = a.ffGains
  /\ startTimes' = a.startTimes
  /\ type' = a.type
  /\ garbage' = a.garbage

\* The object after construction, no call made.
Constructed ==
  /\ i = 0
  /\ mutex = "none"
  /\ abort = FALSE
  /\ gainsRead = {}
  /\ sim = NoSim
  /\ m_filteredData = NoFilteredData
  /\ m_rawData = NoRawData
  /\ m_dtMeanLine = <<>>
  /\ m_quasistaticSim = <<>>
  /\ m_dynamicSim = <<>>
  /\ m_KvFit = NoFit
  /\ m_KaFit = NoFit
  /\ m_RMSE = NotComputed
  /\ m_RSquared = NotComputed
  /\ simSquaredErrorSum = <<>>
  /\ squaredVariationSum = 0
  /\ timeSeriesPoints = 0
  /\ cpc = "idle"
  /\ cret = "none"
  /\ committed = Published
  /\ sinceAbort = 0

Init ==
  /\ Constructed
  /\ pc = "idle"
  /\ op = "none"
  /\ passes = 0
  /\ rawData = EmptyStorage
  /\ filteredData = EmptyStorage
  /\ ffGains = <<>>
  /\ startTimes = {}
  /\ type = "generic"
  /\ garbage = 0

\* A first SetData call with the given arguments has just been entered.
InitCall(argSet) ==
  /\ Constructed
  /\ pc = "enter"
  /\ op = "SetData"
  /\ passes = 1
  /\ \E a \in argSet :
       /\ rawData = a.rawData
       /\ filteredData = a.filteredData
       /\ ffGains = a.ffGains
       /\ startTimes = a.startTimes
       /\ type = a.type
       /\ garbage = a.garbage

InitPass == InitCall(PassArgs)
InitStride == InitCall(StrideArgs)
InitDt == InitCall(DtArgs)

\* SetData is called: the arguments are bound, nothing is read yet.
SetDataCall ==
  /\ pc = "idle"
  /\ passes < MaxPasses
  /\ \E a \in ConcArgs : Bind(a)
  /\ pc' = "enter"
  /\ op' = "SetData"
  /\ passes' = passes + 1
  /\ gainsRead' = {}
  /\ UNCHANGED <<i, mutex, abort, sim, output, sums, consumer, history>>

\* SetRawData is called.
SetRawDataCall ==
  /\ pc = "idle"
  /\ passes < MaxPasses
  /\ \E a \in ConcArgs : rawData' = a.rawData
  /\ pc' = "enter"
  /\ op' = "SetRawData"
  /\ passes' = passes + 1
  /\ gainsRead' = {}
  /\ UNCHANGED <<i, mutex, abort, filteredData, ffGains, startTimes, type,
                 garbage, sim, output, sums, consumer, committed, sinceAbort>>

\* std::scoped_lock lock(m_mutex); ResetData(); and, in SetData, the step
\* sizes, extrema and mean dt, which are functions of the arguments.
BeginPass ==
  /\ pc = "enter"
  /\ mutex = "none"
  /\ mutex' = "producer"
  /\ ResetData
  /\ pc' = IF op = "SetData" THEN "slowLoop" ELSE "rawSlowLoop"
  /\ i' = 0
  /\ sinceAbort' = 0
  /\ UNCHANGED <<op, abort, passes, args, gainsRead, sim, m_RMSE, m_RSquared,
                 consumer, committed>>

\* A return before the end of the pass: the lock is released.
ReturnEarly ==
  /\ pc' = "idle"
  /\ mutex' = "none"
  /\ i' = 0
  /\ UNCHANGED <<op, abort, passes, args, gainsRead, sim, output, sums,
                 consumer, committed, sinceAbort>>

----------------------------------------------------------------------------
(* SetData's decomposition loops.                                          *)

\* DtPoints without the test against the start timestamps.
DtPointsAnyTimestamp(s, k, st) ==
  IF k > 0 /\ s.dt > 0
  THEN <<Point(s.timestamp, Millis(s.dt))>>
  ELSE <<>>

\* The timestep-delta point of a sample, where the loop emits one.
DtPoints(s, k, st) ==
  IF k > 0 /\ s.dt > 0 /\ ~IsStartTime(st, s.timestamp)
  THEN <<Point(s.timestamp, Millis(s.dt))>>
  ELSE <<>>

\* for (size_t i = 0; i < slow.size(); i += slowStep)
SlowIter ==
  /\ pc = "slowLoop"
  /\ i < Len(filteredData.slow)
  /\ \/ abort /\ ReturnEarly
     \/ /\ ~abort
        /\ LET s == filteredData.slow[i + 1]
           IN /\ m_KvFit' = <<Point(Gain(1) * slowMinElement, slowMinElement),
                              Point(Gain(1) * slowMaxElement, slowMaxElement)>>
              /\ m_filteredData' =
                   [m_filteredData EXCEPT
                      ![0] = Append(@, Point(VelocityPortion(s, type), s.velocity)),
                      ![2] = Append(@, Point(s.timestamp, s.velocity)),
                      ![3] = Append(@, Point(s.timestamp, s.acceleration)),
                      ![6] = @ \o DtPoints(s, i, startTimes)]
        /\ gainsRead' = gainsRead \cup GainsOfIteration(type)
        /\ i' = i + slowStep
        /\ UNCHANGED <<pc, op, mutex, abort, passes, args, sim, m_rawData,
                       m_dtMeanLine, m_quasistaticSim, m_dynamicSim, m_KaFit,
                       m_RMSE, m_RSquared, sums, consumer, committed, sinceAbort>>

SlowLoopEnd ==
  /\ pc = "slowLoop"
  /\ i >= Len(filteredData.slow)
  /\ pc' = "fastLoop"
  /\ i' = 0
  /\ UNCHANGED <<op, mutex, abort, passes, args, gainsRead, sim, output, sums,
                 consumer, committed, sinceAbort>>

\* for (size_t i = 0; i < fast.size(); i += fastStep)
FastIter ==
  /\ pc = "fastLoop"
  /\ i < Len(filteredData.fast)
  /\ \/ abort /\ ReturnEarly
     \/ /\ ~abort
        /\ LET s == filteredData.fast[i + 1]
           IN /\ m_KaFit' = <<Point(Gain(2) * fastMinElement, fastMinElement),
                              Point(Gain(2) * fastMaxElement, fastMaxElement)>>
              /\ m_filteredData' =
                   [m_filteredData EXCEPT
                      ![1] = Append(@, Point(AccelerationPortion(s, type), s.acceleration)),
                      ![4] = Append(@, Point(s.timestamp, s.velocity)),
                      ![5] = Append(@, Point(s.timestamp, s.acceleration)),
                      ![6] = @ \o DtPoints(s, i, startTimes)]
        /\ gainsRead' = gainsRead \cup GainsOfIteration(type)
        /\ i' = i + fastStep
        /\ UNCHANGED <<pc, op, mutex, abort, passes, args, sim, m_rawData,
                       m_dtMeanLine, m_quasistaticSim, m_dynamicSim, m_KvFit,
                       m_RMSE, m_RSquared, sums, consumer, committed, sinceAbort>>

\* After the fast loop: the two points of the mean dt line, then the call of
\* SetRawTimeData.
FastLoopEnd ==
  /\ pc = "fastLoop"
  /\ i >= Len(filteredData.fast)
  /\ LET slow == filteredData.slow
         fast == filteredData.fast
         minTime == Min2(slow[1].timestamp, fast[1].timestamp)
         maxTime == Max2(slow[Len(slow)].timestamp, fast[Len(fast)].timestamp)
         dtMean == GetMeanTimeDelta(filteredData)
     IN m_dtMeanLine' = <<Point(minTime, [millis |-> dtMean]),
                          Point(maxTime, [millis |-> dtMean])>>
  /\ pc' = "rawSlowLoop"
  /\ i' = 0
  /\ UNCHANGED <<op, mutex, abort, passes, args, gainsRead, sim, m_filteredData,
                 m_rawData, m_quasistaticSim, m_dynamicSim, m_KvFit, m_KaFit,
                 m_RMSE, m_RSquared, sums, consumer, committed, sinceAbort>>

----------------------------------------------------------------------------
(* SetRawTimeData.                                                         *)

\* SetRawTimeData returns: SetRawData returns with it, SetData goes on to the
\* simulation.
RawTimeDataReturns(complete) ==
  IF op = "SetData"
  THEN /\ pc' = "simSlow"
       /\ i' = 0
       /\ UNCHANGED <<mutex, committed, sinceAbort>>
  ELSE /\ pc' = "idle"
       /\ i' = 0
       /\ mutex' = "none"
       /\ committed' = IF complete THEN Published' ELSE committed
       /\ UNCHANGED sinceAbort

\* for (size_t i = 0; i < rawSlow.size(); i += rawSlowStep)
RawSlowIter ==
  /\ pc = "rawSlowLoop"
  /\ i < Len(rawData.slow)
  /\ \/ /\ abort
        /\ RawTimeDataReturns(FALSE)
        /\ UNCHANGED m_rawData
     \/ /\ ~abort
        /\ LET s == rawData.slow[i + 1]
           IN m_rawData' =
                [m_rawData EXCEPT
                   ![2] = Append(@, Point(s.timestamp, s.velocity)),
                   ![3] = Append(@, Point(s.timestamp, s.acceleration))]
        /\ i' = i + rawSlowStep
        /\ UNCHANGED <<pc, mutex, committed, sinceAbort>>
  /\ UNCHANGED <<op, abort, passes, args, gainsRead, sim, m_filteredData,
                 m_dtMeanLine, m_quasistaticSim, m_dynamicSim, m_KvFit, m_KaFit,
                 m_RMSE, m_RSquared, sums, consumer>>

RawSlowLoopEnd ==
  /\ pc = "rawSlowLoop"
  /\ i >= Len(rawData.slow)
  /\ pc' = "rawFastLoop"
  /\ i' = 0
  /\ UNCHANGED <<op, mutex, abort, passes, args, gainsRead, sim, output, sums,
                 consumer, committed, sinceAbort>>

\* for (size_t i = 0; i < rawFast.size(); i += rawFastStep)
RawFastIter ==
  /\ pc = "rawFastLoop"
  /\ i < Len(rawData.fast)
  /\ \/ /\ abort
        /\ RawTimeDataReturns(FALSE)
        /\ UNCHANGED m_rawData
     \/ /\ ~abort
        /\ LET s == rawData.fast[i + 1]
           IN m_rawData' =
                [m_rawData EXCEPT
                   ![4] = Append(@, Point(s.timestamp, s.velocity)),
                   ![5] = Append(@, Point(s.timestamp, s.acceleration))]
        /\ i' = i + rawFastStep
        /\ UNCHANGED <<pc, mutex, committed, sinceAbort>>
  /\ UNCHANGED <<op, abort, passes, args, gainsRead, sim, m_filteredData,
                 m_dtMeanLine, m_quasistaticSim, m_dynamicSim, m_KvFit, m_KaFit,
                 m_RMSE, m_RSquared, sums, consumer>>

RawFastLoopEnd ==
  /\ pc = "rawFastLoop"
  /\ i >= Len(rawData.fast)
  /\ UNCHANGED <<op, abort, passes, args, gainsRead, sim, output, sums, consumer>>
  /\ RawTimeDataReturns(TRUE)

----------------------------------------------------------------------------
(* The simulations and the final reduction of SetData.                     *)

\* The run a simulation replays: rawSlow, then rawFast.
SimData == IF pc = "simSlow" THEN rawData.slow ELSE rawData.fast

\* PopulateTimeDomainSim is called with a new model: the statements before
\* its loop.
SimBegin ==
  /\ pc \in {"simSlow", "simFast"}
  /\ i = 0
  /\ sim' = SimLocals(SimInit(SimData, SimModel(type), simSquaredErrorSum,
                              squaredVariationSum, timeSeriesPoints))
  /\ gainsRead' = gainsRead \cup GainsOfIteration(type)
  /\ i' = 1
  /\ sinceAbort' = IF abort THEN sinceAbort + 1 ELSE sinceAbort
  /\ UNCHANGED <<pc, op, mutex, abort, passes, args, output, sums, consumer,
                 committed>>

\* for (size_t i = 1; i < data.size(); ++i)
SimIter ==
  /\ pc \in {"simSlow", "simFast"}
  /\ i >= 1
  /\ i < Len(SimData)
  /\ LET s == SimStep(SimState, SimData, startTimes, i)
     IN /\ sim' = SimLocals(s)
        /\ simSquaredErrorSum' = s.simSquaredErrorSum
        /\ squaredVariationSum' = s.squaredVariationSum
        /\ timeSeriesPoints' = s.timeSeriesPoints
  /\ i' = i + 1
  /\ sinceAbort' = IF abort THEN sinceAbort + 1 ELSE sinceAbort
  /\ UNCHANGED <<pc, op, mutex, abort, passes, args, gainsRead, output,
                 consumer, committed>>

\* The loop is over: the last sequence is closed and the result assigned.
SimEnd ==
  /\ pc \in {"simSlow", "simFast"}
  /\ i >= 1
  /\ i >= Len(SimData)
  /\ \/ /\ pc = "simSlow"
        /\ m_quasistaticSim' = SimResult(SimState)
        /\ pc' = "simFast"
        /\ UNCHANGED m_dynamicSim
     \/ /\ pc = "simFast"
        /\ m_dynamicSim' = SimResult(SimState)
        /\ pc' = "reduce"
        /\ UNCHANGED m_quasistaticSim
  /\ sim' = NoSim
  /\ i' = 0
  /\ UNCHANGED <<op, mutex, abort, passes, args, gainsRead, m_filteredData,
                 m_rawData, m_dtMeanLine, m_KvFit, m_KaFit, m_RMSE, m_RSquared,
                 sums, consumer, committed, sinceAbort>>

\* std::sqrt(num / den), kept as its operands.
SqrtOfQuotient(num, den) == [num |-> num, den |-> den]

\* m_RMSE and m_RSquared are computed, SetData returns and the lock is
\* released: the pass has run to its end.
Finish ==
  /\ pc = "reduce"
  /\ m_RMSE' = SqrtOfQuotient(simSquaredErrorSum, timeSeriesPoints)
  /\ m_RSquared' = [rmse |-> m_RMSE',
                    variation |-> SqrtOfQuotient(squaredVariationSum, timeSeriesPoints)]
  /\ pc' = "idle"
  /\ mutex' = "none"
  /\ UNCHANGED <<op, i, abort, passes, args, gainsRead, sim, m_filteredData,
                 m_rawData, m_dtMeanLine, m_quasistaticSim, m_dynamicSim,
                 m_KvFit, m_KaFit, sums, consumer>>
  /\ committed' = Published'
  /\ UNCHANGED sinceAbort

----------------------------------------------------------------------------
(* The consumer: DisplayVoltageDomainPlots and DisplayTimeDomainPlots.     *)

\* try_lock succeeding whoever holds the lock.
TryLockAlways == TRUE
\* lock.try_lock()
TryLock == mutex = "none"

\* The lock is taken: "Loading" is shown and the call returns false.
DisplayBusy ==
  /\ cpc = "idle"
  /\ ~TryLock
  /\ cret' = "false"
  /\ UNCHANGED <<pc, op, i, mutex, abort, passes, args, gainsRead, sim, output,
                 sums, cpc, committed, sinceAbort>>

\* The lock is acquired: the call plots its series.
DisplayBegin(which) ==
  /\ cpc = "idle"
  /\ TryLock
  /\ mutex' = "consumer"
  /\ cpc' = which
  /\ UNCHANGED <<pc, op, i, abort, passes, args, gainsRead, sim, output, sums,
                 cret, committed, sinceAbort>>

\* The call returns true and its unique_lock releases the lock.
DisplayEnd(which) ==
  /\ cpc = which
  /\ mutex' = "none"
  /\ cpc' = "idle"
  /\ cret' = "true"
  /\ UNCHANGED <<pc, op, i, abort, passes, args, gainsRead, sim, output, sums,
                 committed, sinceAbort>>

DisplayVoltageDomainPlots ==
  \/ DisplayBusy
  \/ DisplayBegin("voltage")
  \/ DisplayEnd("voltage")

DisplayTimeDomainPlots ==
  \/ DisplayBusy
  \/ DisplayBegin("time")
  \/ DisplayEnd("time")

----------------------------------------------------------------------------
(* The caller's cancellation flag.                                         *)

Cancel ==
  /\ pc # "idle"
  /\ ~abort
  /\ abort' = TRUE
  /\ UNCHANGED <<pc, op, i, mutex, passes, args, gainsRead, sim, output, sums,
                 consumer, committed, sinceAbort>>

ClearCancel ==
  /\ pc = "idle"
  /\ abort
  /\ abort' = FALSE
  /\ UNCHANGED <<pc, op, i, mutex, passes, args, gainsRead, sim, output, sums,
                 consumer, committed, sinceAbort>>

----------------------------------------------------------------------------
(* Specifications.                                                         *)

PassStep ==
  \/ BeginPass
  \/ SlowIter \/ SlowLoopEnd
  \/ FastIter \/ FastLoopEnd
  \/ RawSlowIter \/ RawSlowLoopEnd
  \/ RawFastIter \/ RawFastLoopEnd
  \/ SimBegin \/ SimIter \/ SimEnd
  \/ Finish

\* Producer and consumer threads and the caller of both.
Next ==
  \/ SetDataCall
  \/ SetRawDataCall
  \/ PassStep
  \/ DisplayVoltageDomainPlots
  \/ DisplayTimeDomainPlots
  \/ Cancel
  \/ ClearCancel

Spec == Init /\ [][Next]_vars

\* One SetData call on a new object, over all runs up to MaxLen.
NextPass == PassStep \/ Cancel

SpecPass == InitPass /\ [][NextPass]_vars

\* One SetData call over runs of the lengths 1, budget, budget + 1 and
\* 10 * budget.
SpecStride == InitStride /\ [][NextPass]_vars

\* One SetData call on runs long enough for the timestep-delta series.
SpecDt == InitDt /\ [][NextPass]_vars

----------------------------------------------------------------------------
(* Properties.                                                             *)

\* The samples at a C++ index >= 1 whose timestamp is a start timestamp.
BoundaryIndices(data, st) ==
  {k \in 2..Len(data) : data[k].timestamp \in st}

\* The shape of a simulator result: one sequence more than boundary samples,
\* and an empty sequence where a boundary sample is followed at once by
\* another boundary sample or by the end of the run.
SimShape(pts, data, st) ==
  LET B == BoundaryIndices(data, st)
  IN /\ Len(pts) = Cardinality(B) + 1
     /\ \A k \in B :
          (k = Len(data) \/ k + 1 \in B)
            => pts[Cardinality({b \in B : b <= k}) + 1] = <<>>

\* C1: PopulateTimeDomainSim returns (number of samples at index >= 1 whose
\* timestamp is a start timestamp) + 1 sequences; a boundary on the next
\* sample or on the last sample leaves the sequence between them, or the
\* trailing one, empty.
C1_SequenceCount ==
  /\ pc \in {"simFast", "reduce"}
       => SimShape(m_quasistaticSim, rawData.slow, startTimes)
  /\ pc = "reduce"
       => SimShape(m_dynamicSim, rawData.fast, startTimes)

\* A run of three samples whose second and third are boundaries has been
\* simulated: one point, then two empty sequences.
C1_Witness ==
  /\ pc = "reduce"
  /\ Len(rawData.slow) = 3
  /\ BoundaryIndices(rawData.slow, startTimes) = {2, 3}
  /\ Len(m_quasistaticSim) = 3
  /\ Len(m_quasistaticSim[1]) = 1
  /\ m_quasistaticSim[2] = <<>>
  /\ m_quasistaticSim[3] = <<>>

\* C8: the simulator never steps the model with dt <= 0, for runs whose dt is
\* 0 only on the last sample or on a sample followed by a boundary sample.
C8_NoZeroDtStep ==
  \A k \in 1..Len(sim.model.steps) : sim.model.steps[k].dt > 0

\* The simulator has passed a sample of dt = 0 that is not the last one, and
\* has stepped the model since.
C8_Witness ==
  /\ pc \in {"simSlow", "simFast"}
  /\ sim.model.steps # <<>>
  /\ \E k \in 1..(Len(SimData) - 1) : SimData[k].dt = 0 /\ i > k

\* A pass is in progress: between the clearing of the output and the return.
InPass == pc \notin {"idle", "enter"}

\* C2: when the producer does not hold the lock, the published output is the
\* output of the last pass that ran to its end; an aborted pass leaves
\* nothing of its own behind.
C2_NoPartialOutput ==
  mutex # "producer" => Published = committed

\* The producer holds the mutex throughout a pass; the consumer plots only
\* while it holds the mutex, and then no pass is in progress.
LockState ==
  /\ InPass => mutex = "producer"
  /\ cpc # "idle" => mutex = "consumer" /\ ~InPass

\* A consumer step taken while the producer holds the lock is a return of
\* false: the consumer does not wait and the output is not touched.
BusyReturns ==
  (cpc = "idle" /\ mutex = "producer" /\ consumer' # consumer)
    => (cpc' = "idle" /\ cret' = "false" /\ mutex' = mutex /\ output' = output)

\* C3: the producer holds the mutex from ResetData to the end of the pass, the
\* consumer never reads the output while a pass is in progress, and a Display
\* call that finds the lock taken returns false at once.
C3_MutualExclusion == []LockState /\ [][BusyReturns]_vars

\* A Display call has returned false while a pass was filling the series.
C3_Witness ==
  /\ pc = "fastLoop"
  /\ mutex = "producer"
  /\ cret = "false"
  /\ m_filteredData[0] # <<>>

\* The samples of a run that add to the running sums.
Contributing(data, st) == {k \in 2..Len(data) : data[k].timestamp \notin st}

RECURSIVE SumSquares(_, _, _)
SumSquares(data, st, k) ==
  IF k <= 1 THEN 0
  ELSE SumSquares(data, st, k - 1)
         + (IF k \in Contributing(data, st)
            THEN data[k].velocity * data[k].velocity ELSE 0)

\* C9: the three running sums are zero when SetData begins its simulation,
\* whatever passes ran before, and at the reduction they hold the
\* contributions of this pass's raw runs only.
C9_SumsStartClean ==
  /\ (pc = "simSlow" /\ i = 0)
       => /\ simSquaredErrorSum = <<>>
          /\ squaredVariationSum = 0
          /\ timeSeriesPoints = 0
  /\ pc = "reduce"
       => /\ timeSeriesPoints = Cardinality(Contributing(rawData.slow, startTimes))
                                + Cardinality(Contributing(rawData.fast, startTimes))
          /\ Len(simSquaredErrorSum) = timeSeriesPoints
          /\ squaredVariationSum =
               SumSquares(rawData.slow, startTimes, Len(rawData.slow))
               + SumSquares(rawData.fast, startTimes, Len(rawData.fast))

\* A second pass begins its simulation after a SetData pass that counted
\* samples had run to its end.
C9_Witness ==
  /\ pc = "simSlow"
  /\ i = 0
  /\ passes = 2
  /\ committed.RMSE # NotComputed
  /\ committed.RMSE.den > 0

\* C10: the cancellation flag is looked at in every iteration of every loop
\* over samples, so a pass processes at most one sample once the flag is set.
C10_StopsAtNextSample == sinceAbort <= 1


\* C4: for every run length >= 1 the stride is >= 1, and no plotted series of
\* the decomposition and raw-data loops holds more than kMaxSize points.
C4_StrideAndBudget ==
  /\ slowStep >= 1
  /\ fastStep >= 1
  /\ rawSlowStep >= 1
  /\ rawFastStep >= 1
  /\ \A k \in DOMAIN m_filteredData : Len(m_filteredData[k]) <= kMaxSize
  /\ \A k \in DOMAIN m_rawData : Len(m_rawData[k]) <= kMaxSize

\* Runs of 10 * budget and budget + 1 samples have been plotted with a stride
\* above 1.
C4_Witness ==
  /\ pc = "reduce"
  /\ Len(rawData.slow) = 10 * kMaxSize
  /\ Len(filteredData.slow) = kMaxSize + 1
  /\ rawSlowStep > 1
  /\ slowStep > 1
  /\ Len(m_rawData[2]) > 1
  /\ Len(m_filteredData[0]) > 1

\* sign(x) with sign(0) = 0.
Sign(x) == IF x > 0 THEN 1 ELSE IF x < 0 THEN 0 - 1 ELSE 0

\* The velocity-portion voltage as the claim states it.
ClaimedVelocityPortion(s) ==
  s.voltage - Sign(s.velocity) * ffGains[1] - ffGains[3] * s.acceleration
    - (IF type = "elevator" THEN ffGains[4]
       ELSE IF type = "arm" THEN ffGains[4] * s.cos
       ELSE 0)

\* C5: every emitted slow-run point is (voltage - sign(velocity) * Ks
\* - Ka * acceleration - gravity term, velocity), with sign(0) = 0.
C5_VelocityPortionUsesSign ==
  Len(ffGains) >= RequiredGains(type)
    => \A j \in 1..Len(m_filteredData[0]) :
         LET s == filteredData.slow[(j - 1) * slowStep + 1]
         IN m_filteredData[0][j] = Point(ClaimedVelocityPortion(s), s.velocity)

\* C6: the reduction divides by neither a zero sample count nor a zero total
\* squared measured velocity: a metric that is set was computed from nonzero
\* denominators.
C6_NoDivisionByZero ==
  /\ m_RMSE # NotComputed => m_RMSE.den # 0
  /\ m_RSquared # NotComputed
       => m_RSquared.variation.num # 0 /\ m_RSquared.variation.den # 0

\* C7: a coefficient vector shorter than the mechanism kind needs is rejected
\* before the output is cleared and before any loop, and no index beyond the
\* vector's length is read.
C7_ShortGainsRejected ==
  /\ Len(ffGains) < RequiredGains(type) => ~InPass
  /\ \A k \in gainsRead : k < Len(ffGains)

\* The samples of a run that a loop of the given stride visits.
EmittedSamples(data, step) ==
  {data[k] : k \in {j \in 1..Len(data) : (j - 1) % step = 0}}

\* C11: every point of the timestep-delta series is (timestamp, dt in ms) of
\* an emitted slow- or fast-run sample with dt > 0 whose timestamp is not a
\* start timestamp; no point of the series lies on a start timestamp.
C11_DtSeriesSkipsBoundaries ==
  \A j \in 1..Len(m_filteredData[6]) :
    LET pt == m_filteredData[6][j]
    IN /\ pt[1] \notin startTimes
       /\ \E s \in EmittedSamples(filteredData.slow, slowStep)
                     \cup EmittedSamples(filteredData.fast, fastStep) :
            /\ pt = Point(s.timestamp, Millis(s.dt))
            /\ s.dt > 0
            /\ s.timestamp \notin startTimes

\* Both loops are done, the series holds a point, and the slow loop visited
\* a sample at index >= 1 with dt > 0 that lies on a start timestamp.
C11_Witness ==
  /\ pc = "reduce"
  /\ m_filteredData[6] # <<>>
  /\ \E k \in 2..Len(filteredData.slow) :
       /\ (k - 1) % slowStep = 0
       /\ filteredData.slow[k].timestamp \in startTimes
       /\ filteredData.slow[k].dt > 0

\* All points of a running simulation, closed sequences first.
RECURSIVE Flatten(_)
Flatten(seqs) ==
  IF seqs = <<>> THEN <<>> ELSE Head(seqs) \o Flatten(Tail(seqs))

AllPoints == Flatten(sim.pts) \o sim.tmp

\* Between the call of PopulateTimeDomainSim and its first iteration the
\* model is in the state of sample 0 and has taken no step.
ResetFromFirstSample ==
  (pc \in {"simSlow", "simFast"} /\ i = 1)
    => /\ sim.model.position = SimData[1].position
       /\ sim.model.velocity = SimData[1].velocity
       /\ sim.model.steps = <<>>
       /\ AllPoints = <<Point(SimData[1].timestamp, Measured(SimData[1].velocity))>>

\* When the slow run has been simulated the count of contributing samples
\* is the number of its non-boundary samples at index >= 1.
CountsNonBoundarySamples ==
  (pc = "simFast" /\ i = 0)
    => /\ timeSeriesPoints = Cardinality(Contributing(rawData.slow, startTimes))
       /\ Len(rawData.slow) < 2 => timeSeriesPoints = 0

\* One iteration of the simulator's loop, for the sample at C++ index i.
OneSamplePerIteration ==
  (pc \in {"simSlow", "simFast"} /\ pc' = pc /\ i >= 1 /\ i' = i + 1)
    => LET now == SimData[i + 1]
           pre == SimData[i]
       IN IF now.timestamp \in startTimes
          THEN /\ sim'.model.position = now.position
               /\ sim'.model.velocity = now.velocity
               /\ sim'.model.steps = <<>>
               /\ AllPoints' = AllPoints
               /\ simSquaredErrorSum' = simSquaredErrorSum
               /\ timeSeriesPoints' = timeSeriesPoints
          ELSE /\ sim'.model.position = sim.model.position
               /\ sim'.model.velocity = sim.model.velocity
               /\ sim'.model.steps =
                    Append(sim.model.steps, [voltage |-> pre.voltage, dt |-> pre.dt])
               /\ AllPoints' =
                    Append(AllPoints,
                           Point(now.timestamp, ModelGetVelocity(sim'.model)))
               /\ simSquaredErrorSum' =
                    Append(simSquaredErrorSum,
                           [measured |-> now.velocity,
                            predicted |-> ModelGetVelocity(sim'.model)])
               /\ timeSeriesPoints' = timeSeriesPoints + 1

\* C12: the simulator resets the model from sample 0 before any step; a
\* boundary sample at index i >= 1 resets the model to that sample and adds
\* no step, point or error term; any other sample adds exactly one step with
\* sample i-1's voltage and dt, one predicted point and one error term; the
\* contributing count of a run is its number of non-boundary samples at
\* index >= 1.
C12_StepPerSample ==
  /\ [](ResetFromFirstSample /\ CountsNonBoundarySamples)
  /\ [][OneSamplePerIteration]_vars

\* The slow run of three samples is being simulated: its second sample was a
\* boundary, its third was stepped to.
C12_Witness ==
  /\ pc = "simSlow"
  /\ i = 3
  /\ Len(rawData.slow) = 3
  /\ rawData.slow[2].timestamp \in startTimes
  /\ rawData.slow[3].timestamp \notin startTimes
  /\ sim.model.position = rawData.slow[2].position
  /\ Len(sim.model.steps) = 1
  /\ timeSeriesPoints = 1

\* C13: the simulator samples each run with that run's stride, so a
\* simulated trajectory never holds more than kMaxSize points in total.
C13_SimWithinBudget ==
  /\ pc \in {"simFast", "reduce"} => Len(Flatten(m_quasistaticSim)) <= kMaxSize
  /\ pc = "reduce" => Len(Flatten(m_dynamicSim)) <= kMaxSize

====
